---- MODULE Spec2Model ----
(***************************************************************************)
(* Model of simple_rpc/io.py: the structural binary codec (read / write    *)
(* over a type descriptor) and the NUL-terminated / escaped byte-string    *)
(* scanner (read_byte_string, _read_bytes_until, until).                   *)
(*                                                                         *)
(* A byte is an integer 0..255.  A stream is a sequence of bytes with a    *)
(* read position; stream.read(n) returns at most n bytes and returns the   *)
(* empty byte string at end of stream, stream.write(b) appends b.          *)
(***************************************************************************)
EXTENDS Integers, Sequences, FiniteSets, TLC

VARIABLES
    stream,      \* bytes held by the stream object
    pos,         \* read position of the stream (1-based index of next byte)
    endianness,  \* struct byte-order character shared by both sides
    size_t,      \* struct tag of the element counts shared by both sides
    last,        \* the last completed call of read / write and its outcome
    marks,       \* the values written so far: descriptor, value, byte range
    calls,       \* number of read / write calls made
    pc,          \* position of the running read_byte_string call
    frames,      \* result buffers of the active read_byte_string frames
    empties,     \* empty chunks stream.read has returned to the running call
    mode,        \* arguments of the running read_byte_string call
    scanned      \* outcome of the read_byte_string call

vars == <<stream, pos, endianness, size_t, last, marks, calls,
          pc, frames, empties, mode, scanned>>

codecVars == <<endianness, size_t, last, marks, calls>>
scanVars == <<pc, frames, empties, mode, scanned>>

-----------------------------------------------------------------------------
(* Bounds of the model.                                                    *)

MaxWrites == 2       \* write calls per behaviour
MaxStreamLen == 5    \* bytes in a stream handed to read for decoding
MaxScanLen == 5      \* bytes in a stream handed to read_byte_string
MaxEmpty == 2        \* empty chunks counted at end of stream; the loop goes
                     \* on after that, the model stops counting

NUL == 0             \* b'\0'
ESC == 35            \* b'#'

-----------------------------------------------------------------------------
(* Values (Python objects handed to write / returned by read).  Every      *)
(* value is a record with the same fields so that any two values can be    *)
(* compared.                                                               *)

IntV(i) == [k |-> "int", n |-> i, b |-> <<>>, items |-> <<>>]
BytesV(bs) == [k |-> "bytes", n |-> 0, b |-> bs, items |-> <<>>]
StrV == [k |-> "str", n |-> 0, b |-> <<>>, items |-> <<>>]
ListV(xs) == [k |-> "list", n |-> 0, b |-> <<>>, items |-> xs]
TupleV(xs) == [k |-> "tuple", n |-> 0, b |-> <<>>, items |-> xs]
\* numpy array: n is the item size of its dtype, b its raw bytes (tobytes())
ArrV(w, bs) == [k |-> "arr", n |-> w, b |-> bs, items |-> <<>>]
NoneV == [k |-> "none", n |-> 0, b |-> <<>>, items |-> <<>>]

ArrSize(v) == Len(v.b) \div v.n

(* Type descriptors.                                                       *)
ScalarD(t) == [k |-> "scalar", tag |-> t, n |-> 0, size |-> -1, subs |-> <<>>]
ListD(ds) == [k |-> "list", tag |-> "", n |-> 0, size |-> -1, subs |-> ds]
TupleD(ds) == [k |-> "tuple", tag |-> "", n |-> 0, size |-> -1, subs |-> ds]
\* numpy array used as a descriptor: item size w; first is its first
\* element (the declared element count), -1 when the descriptor is empty
ArrayD(w, first) == [k |-> "array", tag |-> "", n |-> w, size |-> first, subs |-> <<>>]

-----------------------------------------------------------------------------
(* struct: calcsize, pack, unpack for the unsigned integer tags.           *)

calcsize(tag) == CASE tag = "B" -> 1
                   [] tag = "H" -> 2

RECURSIVE Pow256(_)
Pow256(w) == IF w = 0 THEN 1 ELSE 256 * Pow256(w - 1)

RECURSIVE BigBytes(_, _)
BigBytes(i, w) == IF w = 0 THEN <<>>
                  ELSE Append(BigBytes(i \div 256, w - 1), i % 256)

Reverse(s) == [j \in 1..Len(s) |-> s[Len(s) + 1 - j]]

\* pack with the byte order dropped: always big-endian
packNoOrder(e, tag, i) == BigBytes(i, calcsize(tag))

\* pack(endianness + tag, i) for an integer i in range
pack(e, tag, i) == IF e = ">" THEN BigBytes(i, calcsize(tag))
                   ELSE Reverse(BigBytes(i, calcsize(tag)))

RECURSIVE BigInt(_)
BigInt(bs) == IF bs = <<>> THEN 0
              ELSE 256 * BigInt(SubSeq(bs, 1, Len(bs) - 1)) + bs[Len(bs)]

\* unpack(endianness + tag, bs)[0] for a buffer of the exact width
unpack(e, bs) == IF e = ">" THEN BigInt(bs) ELSE BigInt(Reverse(bs))

\* int.from_bytes(bs, byteorder); the empty byte string gives 0
from_bytes(bs, order) == IF order = "big" THEN BigInt(bs) ELSE BigInt(Reverse(bs))

\* str(i).encode('utf-8') for i >= 0: the ASCII decimal digits
RECURSIVE DecimalText(_)
DecimalText(i) == IF i < 10 THEN <<48 + i>>
                  ELSE Append(DecimalText(i \div 10), 48 + (i % 10))

\* stream.read(n) at position p: the bytes returned
StreamRead(s, p, n) == SubSeq(s, p, IF p + n - 1 > Len(s) THEN Len(s) ELSE p + n - 1)

-----------------------------------------------------------------------------
(* Outcomes.  status is "ok", the name of the Python exception raised, or  *)
(* "hang" when the call never returns.                                     *)

Raises(r) == r.status \notin {"ok", "hang"}

WOut(st, bs) == [status |-> st, out |-> bs]
ROut(st, v, p) == [status |-> st, val |-> v, pos |-> p]

-----------------------------------------------------------------------------
(* cast(c_type)(value) for the integer tags: int(value).                   *)
(* int of a non-numeric str, or of a byte string with no decimal digit,    *)
(* raises ValueError; int of a list, a tuple or None raises TypeError.     *)
cast(v) == CASE v.k = "int" -> [status |-> "ok", n |-> v.n]
             [] v.k = "str" -> [status |-> "ValueError", n |-> 0]
             [] v.k = "bytes" /\ (\A j \in 1..Len(v.b) : v.b[j] \notin 48..57) ->
                  [status |-> "ValueError", n |-> 0]
             [] v.k \in {"list", "tuple", "none"} -> [status |-> "TypeError", n |-> 0]

\* _write_basic without the assert on the declared element count
_write_basic_unchecked(e, bt, v) ==
    IF bt.k = "scalar" /\ bt.tag = "s"
    THEN IF v.k = "bytes" THEN WOut("ok", Append(v.b, NUL))
         ELSE WOut("TypeError", <<>>)
    ELSE IF bt.k = "array" THEN WOut("ok", v.b)
    ELSE LET c == cast(v)
         IN  IF c.status # "ok" THEN WOut(c.status, <<>>)
             ELSE IF c.n < 0 \/ c.n >= Pow256(calcsize(bt.tag))
                  THEN WOut("struct.error", <<>>)
                  ELSE WOut("ok", pack(e, bt.tag, c.n))

(* _write_basic: bt is a scalar descriptor or an array descriptor.  For an *)
(* array descriptor the test basic_type == 's' is taken as false (the      *)
(* descriptors modelled hold at most one element).                         *)
_write_basic(e, bt, v) ==
    IF bt.k = "scalar" /\ bt.tag = "s"
    THEN \* value + b'\0' raises TypeError unless value is a byte string
         IF v.k = "bytes" THEN WOut("ok", Append(v.b, NUL))
         ELSE WOut("TypeError", <<>>)
    ELSE IF bt.k = "array"
    THEN \* the failing assert evaluates its message, basic_type.basic_type,
         \* which raises AttributeError in place of AssertionError
         IF bt.size # -1 /\ bt.size # ArrSize(v)
         THEN WOut("AttributeError", <<>>)
         ELSE WOut("ok", v.b)
    ELSE LET c == cast(v)
         IN  IF c.status # "ok" THEN WOut(c.status, <<>>)
             ELSE IF c.n < 0 \/ c.n >= Pow256(calcsize(bt.tag))
                  THEN WOut("struct.error", <<>>)
                  ELSE WOut("ok", pack(e, bt.tag, c.n))

\* len(obj) is defined for list and tuple values; an int or None has none
HasLen(v) == v.k \in {"list", "tuple"}

RECURSIVE write(_, _, _, _), WriteItems(_, _, _, _, _)

\* the loop of write with a rollback: a failing item discards the bytes of
\* the items written before it
WriteItemsRollback(e, st, subs, items, i) ==
    IF i > Len(items) \/ Len(subs) = 0 THEN WOut("ok", <<>>)
    ELSE LET r == write(e, st, subs[((i - 1) % Len(subs)) + 1], items[i])
         IN  IF r.status # "ok" THEN r
             ELSE LET rest == WriteItems(e, st, subs, items, i + 1)
                  IN  IF rest.status # "ok" THEN WOut(rest.status, <<>>)
                      ELSE WOut(rest.status, r.out \o rest.out)

\* the loop of write: item i of obj is paired with obj_type[i mod N]
\* (zip(obj_type * len(obj), obj) stops at the shorter of the two)
WriteItems(e, st, subs, items, i) ==
    IF i > Len(items) \/ Len(subs) = 0 THEN WOut("ok", <<>>)
    ELSE LET r == write(e, st, subs[((i - 1) % Len(subs)) + 1], items[i])
         IN  IF r.status # "ok" THEN r
             ELSE LET rest == WriteItems(e, st, subs, items, i + 1)
                  IN  WOut(rest.status, r.out \o rest.out)

\* write(stream, endianness, size_t, obj_type, obj): the bytes it hands to
\* stream.write, in order, and how it ends
write(e, st, d, v) ==
    CASE d.k = "list" ->
           IF ~HasLen(v) THEN WOut("TypeError", <<>>)
           ELSE IF Len(d.subs) = 0 THEN WOut("ZeroDivisionError", <<>>)
           ELSE LET c == _write_basic(e, ScalarD(st), IntV(Len(v.items) \div Len(d.subs)))
                IN  IF c.status # "ok" THEN c
                    ELSE LET r == WriteItems(e, st, d.subs, v.items, 1)
                         IN  WOut(r.status, c.out \o r.out)
      [] d.k = "array" ->
           \* obj.size: only an array has it
           IF v.k # "arr" THEN WOut("AttributeError", <<>>)
           ELSE LET c == _write_basic(e, ScalarD(st), IntV(ArrSize(v)))
                IN  IF c.status # "ok" THEN c
                    ELSE LET r == _write_basic(e, d, v)
                         IN  WOut(r.status, c.out \o r.out)
      [] d.k = "tuple" ->
           IF ~HasLen(v) THEN WOut("TypeError", <<>>)
           ELSE WriteItems(e, st, d.subs, v.items, 1)
      [] d.k = "scalar" -> _write_basic(e, d, v)

-----------------------------------------------------------------------------
(* Reading.                                                                *)

\* index of the first delimiter at or after p, 0 when there is none
RECURSIVE FindByte(_, _, _)
FindByte(s, p, delim) == IF p > Len(s) THEN 0
                         ELSE IF s[p] = delim THEN p
                         ELSE FindByte(s, p + 1, delim)

\* _read_bytes_until(stream, delimiter) as a whole call: the bytes before
\* the first delimiter, which is consumed; at end of stream stream.read(1)
\* returns b'', which is not the delimiter, so the loop never ends
_read_bytes_until(s, p, delim) ==
    LET i == FindByte(s, p, delim)
    IN  IF i = 0 THEN ROut("hang", NoneV, Len(s) + 1)
        ELSE ROut("ok", BytesV(SubSeq(s, p, i - 1)), i + 1)

_read_basic(s, p, e, tag) ==
    IF tag = "s" THEN _read_bytes_until(s, p, NUL)
    ELSE LET buf == StreamRead(s, p, calcsize(tag))
         IN  IF Len(buf) < calcsize(tag)
             THEN ROut("struct.error", NoneV, p + Len(buf))
             ELSE ROut("ok", IntV(unpack(e, buf)), p + Len(buf))

RECURSIVE read(_, _, _, _, _), ReadItems(_, _, _, _, _, _, _)

\* the comprehensions of read with every item read as obj_type[0]
ReadItemsFirstOnly(s, p, e, st, subs, total, i) ==
    IF i >= total THEN [status |-> "ok", items |-> <<>>, pos |-> p]
    ELSE LET r == read(s, p, e, st, subs[1])
         IN  IF r.status # "ok"
             THEN [status |-> r.status, items |-> <<>>, pos |-> r.pos]
             ELSE LET rest == ReadItems(s, r.pos, e, st, subs, total, i + 1)
                  IN  [status |-> rest.status,
                       items |-> IF rest.status = "ok" THEN <<r.val>> \o rest.items ELSE <<>>,
                       pos |-> rest.pos]

\* the comprehensions of read: item i (0-based) is read with obj_type[i mod N]
ReadItems(s, p, e, st, subs, total, i) ==
    IF i >= total THEN [status |-> "ok", items |-> <<>>, pos |-> p]
    ELSE LET r == read(s, p, e, st, subs[(i % Len(subs)) + 1])
         IN  IF r.status # "ok"
             THEN [status |-> r.status, items |-> <<>>, pos |-> r.pos]
             ELSE LET rest == ReadItems(s, r.pos, e, st, subs, total, i + 1)
                  IN  [status |-> rest.status,
                       items |-> IF rest.status = "ok" THEN <<r.val>> \o rest.items ELSE <<>>,
                       pos |-> rest.pos]

\* read(stream, endianness, size_t, obj_type) at read position p
read(s, p, e, st, d) ==
    CASE d.k = "array" ->
           LET c == _read_basic(s, p, e, st)
           IN  IF c.status # "ok" THEN c
               ELSE LET buf == StreamRead(s, c.pos, c.val.n * d.n)
                    IN  \* np.frombuffer raises ValueError unless the buffer
                        \* is a whole number of items
                        IF Len(buf) % d.n # 0
                        THEN ROut("ValueError", NoneV, c.pos + Len(buf))
                        ELSE ROut("ok", ArrV(d.n, buf), c.pos + Len(buf))
      [] d.k = "list" ->
           LET c == _read_basic(s, p, e, st)
           IN  IF c.status # "ok" THEN c
               ELSE LET r == ReadItems(s, c.pos, e, st, d.subs, c.val.n * Len(d.subs), 0)
                    IN  ROut(r.status, IF r.status = "ok" THEN ListV(r.items) ELSE NoneV, r.pos)
      [] d.k = "tuple" ->
           LET r == ReadItems(s, p, e, st, d.subs, Len(d.subs), 0)
           IN  ROut(r.status, IF r.status = "ok" THEN TupleV(r.items) ELSE NoneV, r.pos)
      [] d.k = "scalar" -> _read_basic(s, p, e, d.tag)

-----------------------------------------------------------------------------
(* The codec as a state machine: a writer appends encoded values to the    *)
(* stream, a reader decodes from the read position.                        *)

\* all byte strings over alphabet of length at most n
BSeq(alphabet, n) == UNION {[1..m -> alphabet] : m \in 0..n}

NoCall == [op |-> "none", d |-> ScalarD("B"), v |-> NoneV, status |-> "ok",
           val |-> NoneV, start |-> 1, end |-> 1, pre |-> <<>>, out |-> <<>>]

ScanIdle == /\ pc = "idle"
            /\ frames = <<>>
            /\ empties = 0
            /\ mode = [order |-> "big", size_bytes |-> -1, start |-> 1]
            /\ scanned = ROut("ok", NoneV, 1)

Endians == {"<", ">"}
SizeTags == {"B", "H"}

B == ScalarD("B")
H == ScalarD("H")
S == ScalarD("s")

\* the (descriptor, value) pairs handed to write
WriteInputs ==
    { <<B, IntV(1)>>, <<H, IntV(258)>>, <<B, IntV(256)>>, <<B, StrV>>,
      <<S, BytesV(<<65>>)>>, <<S, BytesV(<<>>)>>, <<S, BytesV(<<65, 0, 66>>)>>,
      <<S, IntV(1)>>,
      <<TupleD(<<B, H>>), TupleV(<<IntV(1), IntV(258)>>)>>,
      <<TupleD(<<B, H>>), TupleV(<<IntV(1)>>)>>,
      <<TupleD(<<B, H>>), TupleV(<<IntV(1), IntV(2), IntV(3)>>)>>,
      <<TupleD(<<B, H>>), TupleV(<<IntV(1), StrV>>)>>,
      <<TupleD(<<B, H>>), IntV(1)>>,
      <<ListD(<<B>>), ListV(<<>>)>>,
      <<ListD(<<B>>), ListV(<<IntV(1), IntV(2)>>)>>,
      <<ListD(<<B>>), NoneV>>,
      <<ListD(<<H, S>>), ListV(<<IntV(258), BytesV(<<65>>), IntV(1), BytesV(<<>>)>>)>>,
      <<ListD(<<H, S>>), ListV(<<IntV(258), BytesV(<<65>>), IntV(1)>>)>>,
      <<ListD(<<H, S>>), ListV(<<IntV(258), BytesV(<<65>>), IntV(65536), BytesV(<<>>)>>)>>,
      <<ListD(<<ListD(<<B>>)>>), ListV(<<ListV(<<IntV(1)>>), ListV(<<>>)>>)>>,
      <<ListD(<<TupleD(<<B, S>>)>>), ListV(<<TupleV(<<IntV(1), BytesV(<<65>>)>>)>>)>>,
      <<TupleD(<<ListD(<<B>>), B>>), TupleV(<<ListV(<<IntV(1), IntV(2)>>), IntV(3)>>)>>,
      <<ArrayD(2, -1), ArrV(2, <<1, 2, 3, 4>>)>>,
      <<ArrayD(2, -1), ArrV(2, <<>>)>>,
      <<ArrayD(1, 2), ArrV(1, <<5, 6>>)>>,
      <<ArrayD(1, 2), ArrV(1, <<5>>)>>,
      <<ArrayD(1, 2), ListV(<<IntV(5)>>)>>,
      <<TupleD(<<B, ArrayD(1, 2)>>), TupleV(<<IntV(1), ArrV(1, <<5, 6>>)>>)>>,
      <<TupleD(<<B, ArrayD(1, 2)>>), TupleV(<<IntV(1), ArrV(1, <<5, 6, 7>>)>>)>> }

\* the descriptors handed to read when decoding an arbitrary stream
ReadDescs ==
    { B, H, S, TupleD(<<B, H>>), TupleD(<<S, B>>), ListD(<<B>>), ListD(<<B, H>>),
      ListD(<<S, B>>), ListD(<<ListD(<<B>>)>>), ArrayD(1, -1), ArrayD(2, -1) }

DecodeBytes == {0, 1, 2}

Init == /\ stream = <<>>
        /\ pos = 1
        /\ endianness \in Endians
        /\ size_t \in SizeTags
        /\ last = NoCall
        /\ marks = <<>>
        /\ calls = 0
        /\ ScanIdle

\* one call write(stream, endianness, size_t, d, v); the bytes it wrote
\* before it returned or raised stay in the stream
WriteCall(d, v) ==
    /\ calls < MaxWrites
    /\ last.status # "hang"
    /\ LET r == write(endianness, size_t, d, v)
       IN  /\ stream' = stream \o r.out
           /\ last' = [op |-> "write", d |-> d, v |-> v, status |-> r.status,
                       val |-> NoneV, start |-> Len(stream) + 1,
                       end |-> Len(stream) + Len(r.out) + 1, pre |-> stream,
                       out |-> r.out]
           /\ marks' = IF r.status = "ok"
                       THEN Append(marks, [d |-> d, v |-> v, start |-> Len(stream) + 1,
                                           end |-> Len(stream) + Len(r.out) + 1])
                       ELSE marks
    /\ calls' = calls + 1
    /\ UNCHANGED <<pos, endianness, size_t, scanVars>>

\* one call read(stream, endianness, size_t, d) at the read position; a
\* call that never returns leaves the program in it
ReadCall(d) ==
    /\ last.status # "hang"
    /\ LET r == read(stream, pos, endianness, size_t, d)
       IN  /\ pos' = r.pos
           /\ last' = [op |-> "read", d |-> d, v |-> NoneV, status |-> r.status,
                       val |-> r.val, start |-> pos, end |-> r.pos, pre |-> stream,
                       out |-> <<>>]
    /\ UNCHANGED <<stream, endianness, size_t, marks, calls, scanVars>>

\* the receiving side decodes the value whose encoding starts at the read
\* position with the descriptor it was written with
ReadBack == \E i \in 1..Len(marks) : marks[i].start = pos /\ ReadCall(marks[i].d)

Write == \E inp \in WriteInputs : WriteCall(inp[1], inp[2])

Next == Write \/ ReadBack

Spec == Init /\ [][Next]_vars

(* Decoding streams that hold arbitrary bytes.                             *)
DecodeInit == /\ stream \in BSeq(DecodeBytes, MaxStreamLen)
              /\ pos = 1
              /\ endianness \in Endians
              /\ size_t \in SizeTags
              /\ last = NoCall
              /\ marks = <<>>
              /\ calls = 0
              /\ ScanIdle

Decode == \E d \in ReadDescs : ReadCall(d)

DecodeSpec == DecodeInit /\ [][Decode]_vars

-----------------------------------------------------------------------------
(* read_byte_string, one loop iteration per step.  frames holds the result *)
(* buffer of every active call of read_byte_string, the innermost last.    *)

ScanBytes == {NUL, 1, ESC, 65}

\* the (endianness, size_bytes) arguments; -1 and "None" stand for None
ScanModes == {<<"None", -1>>} \cup ({"big", "little", "None"} \X {1, 2})

CountEmpty(chunk) == IF chunk = <<>> /\ empties < MaxEmpty THEN empties + 1 ELSE empties

Extend(fs, bs) == [fs EXCEPT ![Len(fs)] = @ \o bs]

ScanInit == /\ stream \in BSeq(ScanBytes, MaxScanLen)
            /\ pos = 1
            /\ endianness = "<"
            /\ size_t = "B"
            /\ last = NoCall
            /\ marks = <<>>
            /\ calls = 0
            /\ ScanIdle

\* read_byte_string(stream, order, size_bytes) is called
CallReadByteString(order, sb) ==
    /\ pc = "idle"
    /\ mode' = [order |-> order, size_bytes |-> sb, start |-> pos]
    /\ empties' = 0
    /\ IF sb = -1
       THEN pc' = "until" /\ frames' = <<<<>>>> /\ UNCHANGED scanned
       ELSE IF order = "None"
       THEN /\ scanned' = ROut("AssertionError", NoneV, pos)
            /\ UNCHANGED <<pc, frames>>
       ELSE pc' = "loop" /\ frames' = <<<<>>>> /\ UNCHANGED scanned
    /\ UNCHANGED <<stream, pos, codecVars>>

\* one iteration of until() driven by b''.join in _read_bytes_until
UntilStep ==
    /\ pc = "until"
    /\ LET result == StreamRead(stream, pos, 1)
       IN  /\ pos' = pos + Len(result)
           /\ IF result = <<NUL>>
              THEN /\ scanned' = ROut("ok", BytesV(frames[1]), pos + 1)
                   /\ pc' = "idle"
                   /\ frames' = <<>>
                   /\ UNCHANGED empties
              ELSE /\ frames' = Extend(frames, result)
                   /\ empties' = CountEmpty(result)
                   /\ UNCHANGED <<pc, scanned>>
    /\ UNCHANGED <<stream, mode, codecVars>>

\* one iteration of the while loop of read_byte_string, up to the test
\* for the escape byte
LoopStep ==
    /\ pc = "loop"
    /\ LET char == StreamRead(stream, pos, 1)
       IN  /\ pos' = pos + Len(char)
           /\ IF char = <<NUL>> THEN pc' = "return" /\ UNCHANGED <<frames, empties>>
              ELSE IF char = <<ESC>> THEN pc' = "escape" /\ UNCHANGED <<frames, empties>>
              ELSE /\ frames' = Extend(frames, char)
                   /\ empties' = CountEmpty(char)
                   /\ UNCHANGED pc
    /\ UNCHANGED <<stream, mode, scanned, codecVars>>

\* the escape branch: the size bytes are read and their decimal text is
\* appended, then read_byte_string is called again
EscapeStep ==
    /\ pc = "escape"
    /\ LET raw == StreamRead(stream, pos, mode.size_bytes)
       IN  /\ pos' = pos + Len(raw)
           /\ frames' = Append(Extend(frames, DecimalText(from_bytes(raw, mode.order))), <<>>)
           /\ empties' = CountEmpty(raw)
    /\ pc' = "loop"
    /\ UNCHANGED <<stream, mode, scanned, codecVars>>

\* the return without the break after the recursive call: the caller frame
\* appends the result and goes on reading
ReturnStepNoBreak ==
    /\ pc = "return"
    /\ IF Len(frames) = 1
       THEN /\ scanned' = ROut("ok", BytesV(frames[1]), pos)
            /\ pc' = "idle"
            /\ frames' = <<>>
       ELSE /\ frames' = Extend(SubSeq(frames, 1, Len(frames) - 1), frames[Len(frames)])
            /\ pc' = "loop"
            /\ UNCHANGED scanned
    /\ UNCHANGED <<stream, pos, empties, mode, codecVars>>

\* return result: to the caller frame, which appends it and returns in
\* turn, or to the caller of read_byte_string
ReturnStep ==
    /\ pc = "return"
    /\ IF Len(frames) = 1
       THEN /\ scanned' = ROut("ok", BytesV(frames[1]), pos)
            /\ pc' = "idle"
            /\ frames' = <<>>
       ELSE /\ frames' = Extend(SubSeq(frames, 1, Len(frames) - 1), frames[Len(frames)])
            /\ UNCHANGED <<pc, scanned>>
    /\ UNCHANGED <<stream, pos, empties, mode, codecVars>>

ScanCall == \E m \in ScanModes : CallReadByteString(m[1], m[2])

ScanNext == ScanCall \/ UntilStep \/ LoopStep \/ EscapeStep \/ ReturnStep

ScanSpec == ScanInit /\ [][ScanNext]_vars

-----------------------------------------------------------------------------
(* Properties of the codec.                                                *)

\* v is a value of the shape descriptor d describes; nulOk says whether a
\* byte string may hold the byte 0x00
RECURSIVE Conforms(_, _, _)
Conforms(d, v, nulOk) ==
    CASE d.k = "scalar" /\ d.tag = "s" ->
           v.k = "bytes" /\ (nulOk \/ \A j \in 1..Len(v.b) : v.b[j] # NUL)
      [] d.k = "scalar" /\ d.tag # "s" ->
           v.k = "int" /\ v.n >= 0 /\ v.n < Pow256(calcsize(d.tag))
      [] d.k = "tuple" ->
           /\ v.k = "tuple"
           /\ Len(v.items) = Len(d.subs)
           /\ \A j \in 1..Len(v.items) : Conforms(d.subs[j], v.items[j], nulOk)
      [] d.k = "list" ->
           /\ v.k = "list"
           /\ Len(d.subs) > 0
           /\ Len(v.items) % Len(d.subs) = 0
           /\ \A j \in 1..Len(v.items) :
                 Conforms(d.subs[((j - 1) % Len(d.subs)) + 1], v.items[j], nulOk)
      [] d.k = "array" ->
           /\ v.k = "arr"
           /\ v.n = d.n
           /\ Len(v.b) % d.n = 0
           /\ (d.size = -1 \/ d.size = ArrSize(v))

\* the last call read back, with its own descriptor, the value that write
\* call i put at the read position
ReadBackOf(i) == /\ last.op = "read"
                 /\ marks[i].start = last.start
                 /\ marks[i].d = last.d

RoundTrips(i) == /\ last.status = "ok"
                 /\ last.val = marks[i].v
                 /\ last.end = marks[i].end
                 /\ pos = marks[i].end

\* C1 as stated: every value conforming to its descriptor, byte strings of
\* any content included, is read back equal to what was written, and read
\* stops where the matching write stopped.
C1_RoundTripAnyBytes ==
    \A i \in 1..Len(marks) :
        (ReadBackOf(i) /\ Conforms(marks[i].d, marks[i].v, TRUE)) => RoundTrips(i)

\* C1 amended: every conforming value whose byte strings hold no 0x00 byte
\* is read back equal to what was written, and read stops where the
\* matching write stopped, so values written back to back are read in order.
C1_RoundTrip ==
    \A i \in 1..Len(marks) :
        (ReadBackOf(i) /\ Conforms(marks[i].d, marks[i].v, FALSE)) => RoundTrips(i)

\* C1 witness: two conforming values were written back to back and the
\* second, a composite, has been read back right after the first.
C1_Witness ==
    /\ Len(marks) = 2
    /\ marks[2].start = marks[1].end
    /\ marks[1].end > marks[1].start
    /\ Conforms(marks[1].d, marks[1].v, FALSE)
    /\ Conforms(marks[2].d, marks[2].v, FALSE)
    /\ ReadBackOf(2)
    /\ last.d.k = "list"
    /\ Len(last.val.items) > 1

\* C2 as stated: a write with a tuple descriptor of a value whose length
\* differs from the number of sub-descriptors raises; it never completes.
C2_TupleArityRaises ==
    ( /\ last.op = "write"
      /\ last.d.k = "tuple"
      /\ HasLen(last.v)
      /\ Len(last.v.items) # Len(last.d.subs) ) => Raises(last)

\* C4 as stated: a write with a list descriptor of arity N of a value whose
\* length is no multiple of N raises.
C4_ListMultipleRaises ==
    ( /\ last.op = "write"
      /\ last.d.k = "list"
      /\ HasLen(last.v)
      /\ Len(last.d.subs) > 0
      /\ Len(last.v.items) % Len(last.d.subs) # 0 ) => Raises(last)

\* the bytes left in stream s from position p on
Available(s, p) == Len(s) - p + 1

\* C7 as stated: a read of a fixed-width field from a stream that holds
\* fewer bytes than the descriptor requires raises: fewer than the width
\* of a scalar tag, or fewer than count * itemsize after an array's count.
C7_ShortReadRaises ==
    LET c == _read_basic(last.pre, last.start, endianness, size_t)
    IN  ( /\ last.op = "read"
          /\ \/ /\ last.d.k = "scalar"
                /\ last.d.tag # "s"
                /\ Available(last.pre, last.start) < calcsize(last.d.tag)
             \/ /\ last.d.k = "array"
                /\ c.status = "ok"
                /\ Available(last.pre, c.pos) < c.val.n * last.d.n ) => Raises(last)

\* the write of an array whose element count differs from the count its
\* descriptor declares
ArrayCountMismatch == /\ last.op = "write"
                      /\ last.d.k = "array"
                      /\ last.d.size # -1
                      /\ last.v.k = "arr"
                      /\ ArrSize(last.v) # last.d.size

FlatFixed(d) == \A j \in 1..Len(d.subs) : d.subs[j].k = "scalar" /\ d.subs[j].tag # "s"

\* the width of the first j sub-descriptors of a flat fixed-width list
RECURSIVE SumWidths(_, _)
SumWidths(subs, j) == IF j = 0 THEN 0
                      ELSE SumWidths(subs, j - 1) + calcsize(subs[j].tag)

\* where value k (0-based) of a flat fixed-width list lies after the count
ItemOffset(subs, k) ==
    (k \div Len(subs)) * SumWidths(subs, Len(subs)) + SumWidths(subs, k % Len(subs))

\* C9: a read with a list descriptor of N sub-descriptors decodes a count C
\* with the size tag and then exactly C cycles: it returns one flat list of
\* N*C values, value k decoded against sub-descriptor k mod N, and consumes
\* the size-tag width plus the encodings of those values and nothing more;
\* with C = 0 it returns the empty list and consumes the size tag only.
C9_ListRead ==
    LET c == _read_basic(last.pre, last.start, endianness, size_t)
        subs == last.d.subs
        N == Len(subs)
        C == c.val.n
        sw == calcsize(size_t)
        first == last.start + sw
    IN  (last.op = "read" /\ last.d.k = "list" /\ c.status = "ok") =>
          /\ last.status = "ok" =>
                /\ last.val.k = "list"
                /\ Len(last.val.items) = N * C
                /\ write(endianness, size_t, last.d, last.val)
                      = WOut("ok", SubSeq(last.pre, last.start, last.end - 1))
                /\ pos = last.end
          /\ C = 0 =>
                /\ last.status = "ok"
                /\ last.val = ListV(<<>>)
                /\ last.end = first
          /\ (FlatFixed(last.d) /\ Available(last.pre, first) >= C * SumWidths(subs, N)) =>
                /\ last.status = "ok"
                /\ last.end = first + C * SumWidths(subs, N)
                /\ \A k \in 0..(N * C - 1) :
                      last.val.items[k + 1] =
                          IntV(unpack(endianness,
                                      SubSeq(last.pre, first + ItemOffset(subs, k),
                                             first + ItemOffset(subs, k + 1) - 1)))

\* C9 witness: a list of two sub-descriptors has been read with count 2,
\* giving four values.
C9_Witness == /\ last.op = "read"
              /\ last.d = ListD(<<S, B>>)
              /\ last.status = "ok"
              /\ Len(last.val.items) = 4

-----------------------------------------------------------------------------
(* The fields a write is made of, in descriptor order: every scalar, every *)
(* count prefix, every array body.  bad marks a value that has not the     *)
(* shape its composite descriptor needs.                                   *)

Field(bt, v, bad) == [bt |-> bt, v |-> v, bad |-> bad]

RECURSIVE Fields(_, _, _), ItemFields(_, _, _, _)

ItemFields(st, subs, items, i) ==
    IF i > Len(items) \/ Len(subs) = 0 THEN <<>>
    ELSE Fields(st, subs[((i - 1) % Len(subs)) + 1], items[i])
            \o ItemFields(st, subs, items, i + 1)

Fields(st, d, v) ==
    CASE d.k = "scalar" -> <<Field(d, v, FALSE)>>
      [] d.k = "array" ->
           IF v.k # "arr" THEN <<Field(d, v, TRUE)>>
           ELSE <<Field(ScalarD(st), IntV(ArrSize(v)), FALSE), Field(d, v, FALSE)>>
      [] d.k = "list" ->
           IF ~HasLen(v) \/ Len(d.subs) = 0 THEN <<Field(d, v, TRUE)>>
           ELSE <<Field(ScalarD(st), IntV(Len(v.items) \div Len(d.subs)), FALSE)>>
                   \o ItemFields(st, d.subs, v.items, 1)
      [] d.k = "tuple" ->
           IF ~HasLen(v) THEN <<Field(d, v, TRUE)>>
           ELSE ItemFields(st, d.subs, v.items, 1)

\* the field can be encoded
FieldOk(f) ==
    /\ ~f.bad
    /\ CASE f.bt.k = "scalar" /\ f.bt.tag = "s" -> f.v.k = "bytes"
         [] f.bt.k = "scalar" /\ f.bt.tag # "s" ->
              f.v.k = "int" /\ f.v.n >= 0 /\ f.v.n < Pow256(calcsize(f.bt.tag))
         [] f.bt.k = "array" -> f.bt.size = -1 \/ f.bt.size = ArrSize(f.v)

\* the wire encoding of one field
FieldBytes(e, f) ==
    CASE f.bt.k = "scalar" /\ f.bt.tag = "s" -> f.v.b \o <<NUL>>
      [] f.bt.k = "scalar" /\ f.bt.tag # "s" ->
           IF e = ">" THEN BigBytes(f.v.n, calcsize(f.bt.tag))
           ELSE Reverse(BigBytes(f.v.n, calcsize(f.bt.tag)))
      [] f.bt.k = "array" -> f.v.b

\* the index of the first field that cannot be encoded, 0 if there is none
RECURSIVE FirstBad(_, _)
FirstBad(fs, j) == IF j > Len(fs) THEN 0
                   ELSE IF ~FieldOk(fs[j]) THEN j
                   ELSE FirstBad(fs, j + 1)

\* the encodings of the first j fields, concatenated
RECURSIVE Encoded(_, _, _)
Encoded(e, fs, j) == IF j = 0 THEN <<>>
                     ELSE Encoded(e, fs, j - 1) \o FieldBytes(e, fs[j])

\* C10: a write that fails part-way raises at the failing field with no
\* rollback: the stream gains exactly the encodings of the fields and count
\* prefixes that precede the failing field, nothing of it or of later
\* fields, and the bytes it held before the call are unchanged.
C10_PartialWrite ==
    LET fs == Fields(size_t, last.d, last.v)
        bad == FirstBad(fs, 1)
    IN  (last.op = "write" /\ Raises(last)) =>
          /\ bad > 0
          /\ last.out = Encoded(endianness, fs, bad - 1)
          /\ stream = last.pre \o last.out

\* C10 witness: a composite write failed after it had written fields, on a
\* stream that already held bytes.
C10_Witness == /\ last.op = "write"
               /\ Raises(last)
               /\ last.d.k \in {"tuple", "list"}
               /\ Len(last.out) > 1
               /\ Len(last.pre) > 0
               /\ FirstBad(Fields(size_t, last.d, last.v), 1) > 2

-----------------------------------------------------------------------------
(* Properties of read_byte_string.                                         *)

Running == pc # "idle"

\* C3 as stated: a read of a NUL-terminated byte string from a stream that
\* is exhausted before a 0x00 byte fails with an end-of-stream error: no
\* call is still running once stream.read has returned the empty chunk.
C3_EndOfStreamFails == ~(Running /\ empties > 0)

\* the wire layout of an escaped string that starts at p: the position
\* after its terminating NUL, 0 when the stream ends before it
RECURSIVE EscapedEnd(_, _, _)
EscapedEnd(s, p, sb) ==
    IF p > Len(s) THEN 0
    ELSE IF s[p] = NUL THEN p + 1
    ELSE IF s[p] = ESC
         THEN IF p + sb > Len(s) THEN 0 ELSE EscapedEnd(s, p + 1 + sb, sb)
    ELSE EscapedEnd(s, p + 1, sb)

\* the text a well-formed escaped string that starts at p stands for
RECURSIVE EscapedText(_, _, _, _)
EscapedText(s, p, order, sb) ==
    IF s[p] = NUL THEN <<>>
    ELSE IF s[p] = ESC
         THEN DecimalText(IF order = "big"
                          THEN BigInt(SubSeq(s, p + 1, p + sb))
                          ELSE BigInt(Reverse(SubSeq(s, p + 1, p + sb))))
                 \o EscapedText(s, p + 1 + sb, order, sb)
    ELSE <<s[p]>> \o EscapedText(s, p + 1, order, sb)

EscapedCall == mode.size_bytes # -1 /\ mode.order # "None"

\* C5: on a well-formed stream escaped-mode read_byte_string returns the
\* bytes before the terminating NUL with every escape byte and its
\* size_bytes bytes replaced by the decimal text of the integer they hold,
\* a 0x00 among those bytes being no terminator, and the whole call reads
\* up to and including one terminating NUL and no byte after it.
C5_EscapedDecode ==
    LET end == EscapedEnd(stream, mode.start, mode.size_bytes)
    IN  (EscapedCall /\ end # 0) =>
          /\ pos <= end
          /\ empties = 0
          /\ (pc = "idle" /\ scanned.status = "ok") =>
                /\ scanned.val.b
                      = EscapedText(stream, mode.start, mode.order, mode.size_bytes)
                /\ pos = end
                /\ scanned.pos = end

\* C5 witness: a call has returned the text of two escapes, the first of
\* them holding a 0x00 byte, after two levels of recursion.
C5_Witness == /\ EscapedCall
              /\ pc = "idle"
              /\ scanned.status = "ok"
              /\ mode.start + 2 <= Len(stream)
              /\ stream[mode.start] = ESC
              /\ stream[mode.start + 1] = NUL
              /\ stream[mode.start + 1 + mode.size_bytes] = ESC
              /\ Len(scanned.val.b) >= 2
              /\ pos = EscapedEnd(stream, mode.start, mode.size_bytes)

\* C6 as stated: when fewer than size_bytes bytes follow an escape byte
\* the call fails with a truncation error; the short run is never taken
\* as the integer.
C6_ShortEscapeFails ==
    [][(pc = "escape" /\ Available(stream, pos) < mode.size_bytes)
          => (pc' = "idle" /\ Raises(scanned'))]_vars

====
